---- MODULE Spec2Model ----
(***************************************************************************)
(* Model of rs-solar's anomaly solver (src/src/anomaly.rs,                 *)
(* Anomaly::mean / Anomaly::eccentric) and date composition                *)
(* (src/src/kepler.rs, Date::compute).                                     *)
(*                                                                         *)
(* The code computes in f64.  The model keeps the structure of IEEE-754    *)
(* binary floating point with a shorter significand and the exponent       *)
(* range of binary32: a number is a pair <<m, e>> of value m * 2^e (m odd, *)
(* or <<0, 0>>) with at most MantBits significant bits; every operation    *)
(* computes the exact result and rounds it to nearest, ties to even;       *)
(* magnitudes of 2^MaxExp2 and more overflow to an infinity; finite values *)
(* are multiples of 2^-MinExpMag (gradual underflow); NaN propagates and   *)
(* compares false.  The significand is long enough for the tolerance       *)
(* 1e-7 of the solver to lie above the spacing of the numbers around 1,    *)
(* as it does in f64.  Signed zero is not modelled: the code never         *)
(* divides by a zero whose sign matters, and -0.0 < 0.0 is false like      *)
(* 0.0 < 0.0.  All integer arithmetic below stays within 31 bits.          *)
(***************************************************************************)
EXTENDS Integers, Sequences, FiniteSets, TLC

\* --------------------------------------------------------------- f64

\* Significant bits of a number (f64: 53).
MantBits == 26
\* Magnitudes reach 2^MaxExp2 exclusive (f64: 2^1024; binary32: 2^128).
MaxExp2 == 128
\* Every finite number is a multiple of 2^-MinExpMag (f64: 2^-1074;
\* binary32: 2^-149).
MinExpMag == 149

MinExp == 0 - MinExpMag
SpecialExp == MaxExp2 + 1

NaN == <<0, SpecialExp>>
PosInf == <<1, SpecialExp>>
NegInf == <<-1, SpecialExp>>
Zero == <<0, 0>>

IsNaN(x) == x = NaN
IsInf(x) == x = PosInf \/ x = NegInf
IsFinite(x) == x[2] # SpecialExp

Sgn(n) == IF n > 0 THEN 1 ELSE IF n < 0 THEN -1 ELSE 0
AbsInt(n) == IF n < 0 THEN 0 - n ELSE n
MaxInt(a, b) == IF a >= b THEN a ELSE b
MinInt(a, b) == IF a <= b THEN a ELSE b

RECURSIVE BitLen(_)
\* Number of bits of a natural number (0 for 0).
BitLen(n) == IF n = 0 THEN 0 ELSE 1 + BitLen(n \div 2)

RECURSIVE Canon(_, _)
\* m * 2^e with the trailing zero bits of m moved into the exponent.
Canon(m, e) ==
  IF m = 0 THEN Zero
  ELSE IF m % 2 = 0 THEN Canon(m \div 2, e + 1)
  ELSE <<m, e>>

\* Position just above the leading bit: 2^(Top-1) <= |x| < 2^Top.
Top(x) == x[2] + BitLen(AbsInt(x[1]))

\* The exact value s * 2^e (|s| < 2^31) rounded to MantBits significant
\* bits on the grid 2^MinExp, to nearest and ties to even; overflow gives
\* an infinity.
Round(s, e) ==
  IF s = 0 THEN Zero
  ELSE
    LET a == AbsInt(s)
        b == BitLen(a)
        drop == MaxInt(MaxInt(b - MantBits, MinExp - e), 0)
    IN  IF drop > b THEN Zero
        ELSE
          LET q == a \div (2 ^ drop)
              rem == a % (2 ^ drop)
              half == IF drop = 0 THEN 0 ELSE 2 ^ (drop - 1)
              up == IF drop > 0 /\ (rem > half \/ (rem = half /\ q % 2 = 1))
                    THEN 1 ELSE 0
              r == Canon(Sgn(s) * (q + up), e + drop)
          IN  IF r[1] # 0 /\ Top(r) > MaxExp2
              THEN (IF s > 0 THEN PosInf ELSE NegInf)
              ELSE r

\* a * b for 0 <= a, b with a * b < 2^58, as <<hi, lo>>:
\* a * b = hi * 2^28 + lo, lo < 2^28 (14-bit limbs).
MulWide(a, b) ==
  LET a1 == a \div 16384
      a0 == a % 16384
      b1 == b \div 16384
      b0 == b % 16384
      mid == a1 * b0 + a0 * b1
      low == a0 * b0 + (mid % 16384) * 16384
  IN  <<a1 * b1 + (mid \div 16384) + (low \div 268435456), low % 268435456>>

\* The exact value sign * (p[1] * 2^28 + p[2]) * 2^e, rounded: the
\* product is cut to 29 bits and a sticky bit first.
RoundWide(sign, p, e) ==
  IF p[1] = 0 THEN Round(sign * p[2], e)
  ELSE
    LET k == 29 - BitLen(p[1])
        cut == 2 ^ (28 - k)
        s == p[1] * 2 ^ k + (p[2] \div cut)
        sticky == IF p[2] % cut = 0 THEN 0 ELSE 1
    IN  Round(sign * (2 * s + sticky), e + 27 - k)

RECURSIVE LongDiv(_, _, _, _)
\* n more quotient bits of r / d (r < 2 d) after the bits q; the
\* remainder left is doubled at each step.  <<quotient, remainder>>.
LongDiv(r, d, n, q) ==
  IF n = 0 THEN <<q, r>>
  ELSE IF r >= d THEN LongDiv(2 * (r - d), d, n - 1, 2 * q + 1)
  ELSE LongDiv(2 * r, d, n - 1, 2 * q)

\* The quotient of the integers n / d (0 < |n|, |d| < 2^27) times 2^e,
\* rounded: 29 quotient bits and a sticky bit.
RoundQuot(n, d, e) ==
  LET ln == BitLen(AbsInt(n))
      ld == BitLen(AbsInt(d))
      qr == LongDiv(AbsInt(n) * 2 ^ (27 - ln), AbsInt(d) * 2 ^ (27 - ld), 29, 0)
      sticky == IF qr[2] = 0 THEN 0 ELSE 1
  IN  Round(Sgn(n) * Sgn(d) * (2 * qr[1] + sticky), e + ln - ld - 29)

FromInt(n) == Round(n, 0)

\* The number n / d of a source literal (0 < d, |n|, d < 2^27), rounded as
\* the compiler rounds it.
Lit(n, d) == IF n = 0 THEN Zero ELSE RoundQuot(n, d, 0)

FNeg(x) == IF IsNaN(x) THEN NaN ELSE <<0 - x[1], x[2]>>

\* f64::abs
FAbs(x) == IF x[1] < 0 THEN FNeg(x) ELSE x

\* -1, 0, 1 as x < y, x = y, x > y: for finite x and y.
CmpFinite(x, y) ==
  IF Sgn(x[1]) # Sgn(y[1]) THEN (IF x[1] < y[1] THEN -1 ELSE 1)
  ELSE IF x[1] = 0 THEN 0
  ELSE IF Top(x) # Top(y)
       THEN (IF (Top(x) < Top(y)) = (x[1] > 0) THEN -1 ELSE 1)
  ELSE LET e == MinInt(x[2], y[2])
           a == x[1] * 2 ^ (x[2] - e)
           b == y[1] * 2 ^ (y[2] - e)
       IN  IF a < b THEN -1 ELSE IF a > b THEN 1 ELSE 0

Cmp(x, y) ==
  IF IsFinite(x) /\ IsFinite(y) THEN CmpFinite(x, y)
  ELSE IF x = y THEN 0
  ELSE IF x = NegInf \/ y = PosInf THEN -1
  ELSE 1

\* The comparisons of f64: every comparison with a NaN is false.
FLt(x, y) == ~IsNaN(x) /\ ~IsNaN(y) /\ Cmp(x, y) < 0
FGt(x, y) == ~IsNaN(x) /\ ~IsNaN(y) /\ Cmp(x, y) > 0
FGe(x, y) == ~IsNaN(x) /\ ~IsNaN(y) /\ Cmp(x, y) >= 0
FLe(x, y) == ~IsNaN(x) /\ ~IsNaN(y) /\ Cmp(x, y) <= 0

\* x + y for finite nonzero x, y with Top(x) >= Top(y): x is scaled to 29
\* bits, y is aligned to it with a sticky bit, and the sum is rounded.
AddAligned(x, y) ==
  LET ex == Top(x) - 29
      X == AbsInt(x[1]) * 2 ^ (29 - BitLen(AbsInt(x[1])))
      sh == ex - y[2]
      Y == IF sh <= 0 THEN AbsInt(y[1]) * 2 ^ (0 - sh)
           ELSE IF sh > 28 THEN 0
           ELSE AbsInt(y[1]) \div (2 ^ sh)
      sticky == IF sh <= 0 THEN 0
                ELSE IF sh > 28 THEN 1
                ELSE IF AbsInt(y[1]) % (2 ^ sh) = 0 THEN 0 ELSE 1
  IN  Round(Sgn(x[1]) * 2 * X + Sgn(y[1]) * (2 * Y + sticky), ex - 1)

FAdd(x, y) ==
  IF IsNaN(x) \/ IsNaN(y) THEN NaN
  ELSE IF IsInf(x) THEN (IF IsInf(y) /\ y # x THEN NaN ELSE x)
  ELSE IF IsInf(y) THEN y
  ELSE IF x[1] = 0 THEN y
  ELSE IF y[1] = 0 THEN x
  ELSE IF Top(x) >= Top(y) THEN AddAligned(x, y)
  ELSE AddAligned(y, x)

FSub(x, y) == FAdd(x, FNeg(y))

FMul(x, y) ==
  IF IsNaN(x) \/ IsNaN(y) THEN NaN
  ELSE IF IsInf(x) \/ IsInf(y)
       THEN (IF x[1] = 0 \/ y[1] = 0 THEN NaN
             ELSE IF Sgn(x[1]) = Sgn(y[1]) THEN PosInf ELSE NegInf)
  ELSE RoundWide(Sgn(x[1]) * Sgn(y[1]),
                 MulWide(AbsInt(x[1]), AbsInt(y[1])), x[2] + y[2])

FDiv(x, y) ==
  IF IsNaN(x) \/ IsNaN(y) THEN NaN
  ELSE IF IsInf(x)
       THEN (IF IsInf(y) THEN NaN
             ELSE IF (x[1] > 0) = (y[1] >= 0) THEN PosInf ELSE NegInf)
  ELSE IF IsInf(y) THEN Zero
  ELSE IF y[1] = 0
       THEN (IF x[1] = 0 THEN NaN ELSE IF x[1] > 0 THEN PosInf ELSE NegInf)
  ELSE IF x[1] = 0 THEN Zero
  ELSE RoundQuot(x[1], y[1], x[2] - y[2])

\* f64::floor
FFloor(x) ==
  IF ~IsFinite(x) \/ x[2] >= 0 THEN x
  ELSE IF 0 - x[2] >= BitLen(AbsInt(x[1]))
       THEN (IF x[1] > 0 THEN Zero ELSE FromInt(-1))
  ELSE Canon(x[1] \div (2 ^ (0 - x[2])), 0)

\* f64::powf(k) for the exponents the code uses, 2.0 and 3.0.
FPow2(x) == FMul(x, x)
FPow3(x) == FMul(FMul(x, x), x)

\* ------------------------------------------------- f64::sin, cos, sinh, cosh

\* The library functions are computed in fixed point, FixBits fractional
\* bits, from their power series after a range reduction, and rounded: the
\* result is within a few units in the last place of the true value, as
\* the platform's libm is.
FixBits == 27
FixOne == 2 ^ FixBits
\* pi / 2, pi and 2 pi in fixed point.
HalfPiFx == 210828714
PiFx == 421657428
TwoPiFx == 843314857
\* Arguments of sin and cos stay below 2^TrigTop in magnitude, those of
\* sinh and cosh overflow from 2^HypTop.
TrigTop == 29
HypTop == 7

\* floor(a * b / 2^FixBits) for 0 <= a, b with a * b < 2^58.
MulFx(a, b) ==
  LET p == MulWide(a, b) IN 2 * p[1] + (p[2] \div FixOne)

\* The finite x as an integer count of 2^-f, truncated toward zero
\* (|x| < 2^(29 - f)).
ToFixed(x, f) ==
  LET sh == x[2] + f
  IN  IF sh >= 0 THEN x[1] * 2 ^ sh
      ELSE IF 0 - sh > 30 THEN 0
      ELSE Sgn(x[1]) * (AbsInt(x[1]) \div (2 ^ (0 - sh)))

RECURSIVE Series(_, _, _, _)
\* t + t x2 alt / ((k+1)(k+2)) + ...: the series of cos (k = 0, alt = -1),
\* sin(x)/x (k = 1, alt = -1) and sinh(x)/x (k = 1, alt = 1) in x2 = x^2.
Series(t, x2, k, alt) ==
  IF t = 0 THEN 0
  ELSE t + Series(alt * Sgn(t) * (MulFx(AbsInt(t), x2) \div ((k + 1) * (k + 2))),
                  x2, k + 2, alt)

RECURSIVE ExpSeries(_, _, _)
\* t + t r / (k+1) + ...: the series of exp from its term of index k.
ExpSeries(t, r, k) ==
  IF t = 0 THEN 0 ELSE t + ExpSeries(MulFx(t, r) \div (k + 1), r, k + 1)

\* 2 pi in two parts: the first has 13 bits, so that its product with a
\* count of periods is exact, the second is the rest.
TwoPiHi == <<3217, -9>>
TwoPiLo == Round(-78363603, -42)

\* x reduced to [-pi, pi] in fixed point (|x| < 2^TrigTop): the periods
\* are counted and taken off in two exact or nearly exact steps.
ReducePi(x) ==
  LET k == FFloor(FAdd(FDiv(x, Round(TwoPiFx, 0 - FixBits)), Lit(1, 2)))
  IN  ToFixed(FSub(FSub(x, FMul(k, TwoPiHi)), FMul(k, TwoPiLo)), FixBits)

\* The argument folded from [0, pi] into [0, pi / 2].
FoldPi(a) == IF a > HalfPiFx THEN MaxInt(PiFx - a, 0) ELSE a

SinFx(a) == MulFx(a, Series(FixOne, MulFx(a, a), 1, -1))
CosFx(a) == Series(FixOne, MulFx(a, a), 0, -1)

\* f64::sin
FSin(x) ==
  IF ~IsFinite(x) \/ Top(x) > TrigTop THEN NaN
  ELSE IF Top(x) <= 0
       THEN LET a == AbsInt(ToFixed(x, FixBits))
            IN  FMul(x, Round(Series(FixOne, MulFx(a, a), 1, -1), 0 - FixBits))
  ELSE LET r == ReducePi(x)
           a == AbsInt(r)
       IN  Round(Sgn(r) * SinFx(FoldPi(a)),
                 0 - FixBits)

\* f64::cos
FCos(x) ==
  IF ~IsFinite(x) \/ Top(x) > TrigTop THEN NaN
  ELSE LET a == AbsInt(ReducePi(x))
       IN  IF a > HalfPiFx THEN Round(0 - CosFx(FoldPi(a)), 0 - FixBits)
           ELSE Round(CosFx(a), 0 - FixBits)

\* e^1, e^2, e^4, ..., e^64 to 27 bits.
ExpPow ==
  << <<91210403, -25>>, <<123967790, -24>>, <<114500620, -21>>,
     <<97680031, -15>>, <<71088884, -3>>, <<75304947, 20>>,
     <<84502027, 66>> >>

RECURSIVE ExpInt(_, _)
\* e^(n * 2^(j-1)) for a natural n < 2^(8-j), by the bits of n.
ExpInt(n, j) ==
  IF n = 0 THEN Round(1, 0)
  ELSE IF n % 2 = 1
       THEN FMul(Round(ExpPow[j][1], ExpPow[j][2]), ExpInt(n \div 2, j + 1))
  ELSE ExpInt(n \div 2, j + 1)

\* e^a for a finite a, 0 <= a < 2^HypTop: e^floor(a) times the series at
\* the fractional part.
FExp(a) ==
  LET n == FFloor(a)
      r == ToFixed(FSub(a, n), FixBits)
  IN  FMul(ExpInt(n[1] * 2 ^ n[2], 1),
           Round(ExpSeries(FixOne, r, 0), 0 - FixBits))

\* e^a / 2 for a finite a >= 0: the halving comes before the last
\* product so that it overflows only where sinh and cosh do.
HalfExp(a) ==
  IF FGe(a, Round(1, 0))
  THEN FMul(FExp(FSub(a, Round(1, 0))), Round(ExpPow[1][1], ExpPow[1][2] - 1))
  ELSE FMul(Lit(1, 2), FExp(a))

\* f64::sinh
FSinh(x) ==
  IF IsNaN(x) THEN NaN
  ELSE IF IsInf(x) \/ x[1] = 0 THEN x
  ELSE IF Top(x) > HypTop THEN (IF x[1] > 0 THEN PosInf ELSE NegInf)
  ELSE IF Top(x) < 0
       THEN LET a == AbsInt(ToFixed(x, FixBits))
            IN  FMul(x, Round(Series(FixOne, MulFx(a, a), 1, 1), 0 - FixBits))
  ELSE LET E == HalfExp(FAbs(x))
           h == FSub(E, FDiv(Lit(1, 4), E))
       IN  IF x[1] > 0 THEN h ELSE FNeg(h)

\* f64::cosh
FCosh(x) ==
  IF IsNaN(x) THEN NaN
  ELSE IF IsInf(x) \/ Top(x) > HypTop THEN PosInf
  ELSE LET E == HalfExp(FAbs(x))
       IN  FAdd(E, FDiv(Lit(1, 4), E))

\* ------------------------------------------------------------- the state

VARIABLES
  op,                   \* the call in progress: "eccentric" or "compute"
  pc,                   \* position in it
  run,                  \* 1: the first call; 2: a second call, for comparison
  first,                \* what the first call returned, kept for the second
  \* Anomaly::eccentric: its arguments, locals and return value
  shape, mean_motion, orbital_eccentricity, major_axis,
  xref, px0, pdx, hx0, hdx, zx0, zdx,
  iters,                \* loop bodies executed by this call
  result,
  \* Date::compute: its arguments, locals and return value
  julian_date, epoch, rotational_period, orbital_period,
  tmp_day, tmp_year,
  raw,                  \* tmp_day as first computed
  ranSub, ranAdd,       \* whether each while loop executed an iteration
  date

cvars == <<op, pc, run, first>>
avars == <<shape, mean_motion, orbital_eccentricity, major_axis,
           xref, px0, pdx, hx0, hdx, zx0, zdx, iters, result>>
ainputs == <<shape, orbital_eccentricity, major_axis>>
dvars == <<julian_date, epoch, rotational_period, orbital_period,
           tmp_day, tmp_year, raw, ranSub, ranAdd, date>>
dinputs == <<epoch, rotational_period, orbital_period>>
vars == <<cvars, avars, dvars>>

\* ------------------------------------------------------ bounds and inputs

\* Loop bodies one call may execute in the model: the code has no such
\* limit, and a call that reaches it is left in its loop.
MaxIters == 300

One == FromInt(1)
Two == FromInt(2)

Shapes == {"Circular", "Elliptical", "Parabolic", "Hyperbolic"}

\* Eccentricities of each shape's domain (Mars: 0.0934).
Eccentricities(sh) ==
  CASE sh = "Circular" -> {Zero}
    [] sh = "Elliptical" -> {Lit(934, 10000), Lit(1, 2), Lit(9, 10)}
    [] sh = "Parabolic" -> {One}
    [] sh = "Hyperbolic" -> {Lit(11, 10), Lit(3, 2), Two}

\* Seeds (mean_motion), of both signs.
SeedMagnitudes == {Zero, Lit(1, 16), Lit(1, 2), One, Two, FromInt(3),
                   FromInt(10)}
Seeds == SeedMagnitudes \cup {FNeg(m) : m \in SeedMagnitudes}

\* Seeds of the parabolic branch about the fixed point sqrt(6) of its update
\* x^3 / 6 (the two numbers of the format next to it, one on each side) and
\* at the ends of the range: 2^42, 2^127 and the least positive number.
BelowSqrtSix == <<20547809, -23>>
AboveSqrtSix == <<41095619, -24>>
ParabolicSeedMagnitudes ==
  {BelowSqrtSix, AboveSqrtSix, Round(1, 42), Round(1, 127), Round(1, -149)}
SeedsOf(sh) ==
  IF sh = "Parabolic"
  THEN Seeds \cup ParabolicSeedMagnitudes
             \cup {FNeg(m) : m \in ParabolicSeedMagnitudes}
  ELSE Seeds

\* Semi-major axes (Mars: 1.52).
MajorAxes == {Lit(152, 100)}

\* ------------------------------------------------------ Anomaly::eccentric

\* The literal 1.0e-7 of the loop conditions.
Tolerance == Lit(1, 10000000)
\* The literal 10.0 the step variables start from.
InitialStep == FromInt(10)

\* Anomaly::mean
mean(m) == FAbs(m)

\* SemiAxis::major: the semi-major axis itself.
SemiAxisMajor(a) == a

\* A loop condition that a NaN step satisfies: !(dx <= 1.0e-7).
LoopConditionUnordered(dx) == ~FLe(dx, Tolerance)
\* while pdx > 1.0e-7, while hdx > 1.0e-7, while zdx > 1.0e-7
LoopCondition(dx) == FGt(dx, Tolerance)

\* if mean_motion < 0.0 { x = -x }
SignCorrection(m, x) == IF FLt(m, Zero) THEN FNeg(x) ELSE x

EccentricCircular ==
  /\ op = "eccentric" /\ pc = "call" /\ shape = "Circular"
  /\ xref' = mean(mean_motion)
  /\ result' = xref'
  /\ pc' = "done"
  /\ UNCHANGED <<op, run, first, mean_motion, ainputs, px0, pdx, hx0, hdx,
                 zx0, zdx, iters, dvars>>

ParabolicInit ==
  /\ op = "eccentric" /\ pc = "call" /\ shape = "Parabolic"
  /\ pdx' = InitialStep
  /\ xref' = mean(mean_motion)
  /\ px0' = xref'
  /\ pc' = "parabolic"
  /\ UNCHANGED <<op, run, first, mean_motion, ainputs, hx0, hdx, zx0, zdx,
                 iters, result, dvars>>

\* The step pdx = px0^3 / 6 of the loop body.
ParabolicStep(x) == FDiv(FPow3(x), FromInt(6))
\* q = p / 2 with the semi-latus rectum p = a (1 - e^2).
PerifocalDistance(a, e) ==
  FDiv(FMul(SemiAxisMajor(a), FSub(One, FPow2(e))), Two)

ParabolicIter ==
  /\ op = "eccentric" /\ pc = "parabolic"
  /\ LoopCondition(pdx)
  /\ iters < MaxIters
  /\ pdx' = ParabolicStep(px0)
  /\ px0' = FAdd(FMul(PerifocalDistance(major_axis, orbital_eccentricity), px0),
                 pdx')
  /\ iters' = iters + 1
  /\ UNCHANGED <<cvars, mean_motion, ainputs, xref, hx0, hdx, zx0, zdx,
                 result, dvars>>

ParabolicReturn ==
  /\ op = "eccentric" /\ pc = "parabolic"
  /\ ~LoopCondition(pdx)
  /\ result' = SignCorrection(mean_motion, px0)
  /\ pc' = "done"
  /\ UNCHANGED <<op, run, first, mean_motion, ainputs, xref, px0, pdx, hx0,
                 hdx, zx0, zdx, iters, dvars>>

HyperbolicInit ==
  /\ op = "eccentric" /\ pc = "call" /\ shape = "Hyperbolic"
  /\ hdx' = InitialStep
  /\ xref' = mean(mean_motion)
  /\ hx0' = xref'
  /\ pc' = "hyperbolic"
  /\ UNCHANGED <<op, run, first, mean_motion, ainputs, px0, pdx, zx0, zdx,
                 iters, result, dvars>>

\* hdx = x0 / x1, x0 = (xref - e) * sinh(hx0) + hx0, x1 = e * cosh(hx0) - 1
HyperbolicStep(m, e, h) ==
  FDiv(FAdd(FMul(FSub(m, e), FSinh(h)), h),
       FSub(FMul(e, FCosh(h)), One))

HyperbolicIter ==
  /\ op = "eccentric" /\ pc = "hyperbolic"
  /\ LoopCondition(hdx)
  /\ iters < MaxIters
  /\ hdx' = HyperbolicStep(xref, orbital_eccentricity, hx0)
  /\ hx0' = FAdd(hx0, hdx')
  /\ iters' = iters + 1
  /\ UNCHANGED <<cvars, mean_motion, ainputs, xref, px0, pdx, zx0, zdx,
                 result, dvars>>

HyperbolicReturn ==
  /\ op = "eccentric" /\ pc = "hyperbolic"
  /\ ~LoopCondition(hdx)
  /\ result' = SignCorrection(mean_motion, hx0)
  /\ pc' = "done"
  /\ UNCHANGED <<op, run, first, mean_motion, ainputs, xref, px0, pdx, hx0,
                 hdx, zx0, zdx, iters, dvars>>

\* zx0 = xref + e * sin(xref)
EllipticalGuess(m, e) == FAdd(m, FMul(e, FSin(m)))

EllipticalInit ==
  /\ op = "eccentric" /\ pc = "call" /\ shape = "Elliptical"
  /\ zdx' = InitialStep
  /\ xref' = mean(mean_motion)
  /\ zx0' = EllipticalGuess(xref', orbital_eccentricity)
  /\ pc' = "elliptical"
  /\ UNCHANGED <<op, run, first, mean_motion, ainputs, px0, pdx, hx0, hdx,
                 iters, result, dvars>>

\* zdx = x0 / x1, x0 = -(zx0 - e) * sin(zx0) - xref, x1 = 1 - e * cos(zx0)
EllipticalStep(m, e, z) ==
  FDiv(FSub(FMul(FNeg(FSub(z, e)), FSin(z)), m),
       FSub(One, FMul(e, FCos(z))))

EllipticalIter ==
  /\ op = "eccentric" /\ pc = "elliptical"
  /\ LoopCondition(zdx)
  /\ iters < MaxIters
  /\ zdx' = EllipticalStep(xref, orbital_eccentricity, zx0)
  /\ zx0' = FAdd(zx0, zdx')
  /\ iters' = iters + 1
  /\ UNCHANGED <<cvars, mean_motion, ainputs, xref, px0, pdx, hx0, hdx,
                 result, dvars>>

EllipticalReturn ==
  /\ op = "eccentric" /\ pc = "elliptical"
  /\ ~LoopCondition(zdx)
  /\ result' = SignCorrection(mean_motion, zx0)
  /\ pc' = "done"
  /\ UNCHANGED <<op, run, first, mean_motion, ainputs, xref, px0, pdx, hx0,
                 hdx, zx0, zdx, iters, dvars>>

\* A second call of eccentric with the seed negated and the other
\* arguments equal, after the first has returned.
CallNegated ==
  /\ op = "eccentric" /\ pc = "done" /\ run = 1
  /\ first' = result
  /\ run' = 2
  /\ mean_motion' = FNeg(mean_motion)
  /\ xref' = Zero /\ px0' = Zero /\ pdx' = Zero /\ hx0' = Zero
  /\ hdx' = Zero /\ zx0' = Zero /\ zdx' = Zero /\ result' = Zero
  /\ iters' = 0
  /\ pc' = "call"
  /\ UNCHANGED <<op, ainputs, dvars>>

\* ------------------------------------------------------------ Date::compute

\* planets::EARTH_ROTATIONAL_PERIOD: the seconds of an Earth day.
EARTH_ROTATIONAL_PERIOD == FromInt(86400)

\* Date::default(): era Unknown and 0.0 in the numeric fields (the season
\* string is left out of the model).
NoDate == [era |-> "Unknown", year |-> Zero, month |-> Zero, day |-> Zero,
           ls |-> Zero]

\* The bodies: Mars (epoch 2.442765667e6, rotational period 88775.245,
\* orbital period 668.6) and a reference body that counts Earth days from
\* julian date 0 with a period of 365.25.
Mars == [epoch |-> FAdd(FromInt(2442765), Lit(667, 1000)),
         rotational_period |-> FAdd(FromInt(88775), Lit(245, 1000)),
         orbital_period |-> Lit(6686, 10)]
Reference == [epoch |-> Zero,
              rotational_period |-> EARTH_ROTATIONAL_PERIOD,
              orbital_period |-> Lit(1461, 4)]
Bodies == {Mars, Reference}

\* julian_date - epoch of the calls, in days: zero, a day and one to some
\* thirty periods either side, 2440587.5 for Mars (the test of the
\* repository), 2^-70 of a day before the epoch, and 2^70 days after it
\* (in f64 as here, the first is lost when a period is added to it and
\* the second does not change when a period is taken off it).
Offsets ==
  {Zero, FromInt(-1), FromInt(1), FromInt(700), FromInt(1000),
   FNeg(Lit(34851, 16)), FromInt(-4383), FromInt(-7900), FromInt(-9000),
   FNeg(Round(1, -70)), Round(1, 70)}
JulianDates(ep) == {FAdd(ep, o) : o \in Offsets}

\* The solar longitudes SolarLongitude::compute may return, in degrees, and
\* Perihelion::avg_ls, the span of longitude of a month.
SolarLongitudes == {Zero, FromInt(251)}
avg_ls == FromInt(30)

\* year as i32: the cast truncates toward zero, saturates, and sends NaN
\* to 0.
AsI32(x) ==
  IF IsNaN(x) THEN 0
  ELSE IF x = PosInf \/ (x[1] > 0 /\ Top(x) > 31) THEN 2147483647
  ELSE IF x = NegInf \/ (x[1] < 0 /\ Top(x) > 31) THEN 0 - 2147483647 - 1
  ELSE IF x[2] >= 0 THEN x[1] * 2 ^ x[2]
  ELSE IF 0 - x[2] > 30 THEN 0
  ELSE Sgn(x[1]) * (AbsInt(x[1]) \div (2 ^ (0 - x[2])))

\* let mut tmp_year = 12.0
InitialYear == FromInt(12)

\* (julian_date - epoch) * EARTH_ROTATIONAL_PERIOD / rotational_period
ElapsedDays(jd, ep, rot) ==
  FDiv(FMul(FSub(jd, ep), EARTH_ROTATIONAL_PERIOD), rot)

\* The first loop's condition with > for >=.
SubConditionStrict(d, p) == FGt(d, p)

\* while tmp_day >= orbital_period
SubCondition(d, p) == FGe(d, p)
\* while tmp_day < 0.0
AddCondition(d) == FLt(d, Zero)

\* match year as i32 > 0 { true => AD, false => BD }
EraOf(year) == IF AsI32(year) > 0 THEN "AD" ELSE "BD"

DateInit ==
  /\ op = "compute" /\ pc = "call"
  /\ tmp_year' = InitialYear
  /\ tmp_day' = ElapsedDays(julian_date, epoch, rotational_period)
  /\ raw' = tmp_day'
  /\ pc' = "subtract"
  /\ UNCHANGED <<op, run, first, avars, julian_date, dinputs, ranSub, ranAdd,
                 date>>

SubIter ==
  /\ op = "compute" /\ pc = "subtract"
  /\ SubCondition(tmp_day, orbital_period)
  /\ iters < MaxIters
  /\ tmp_day' = FSub(tmp_day, orbital_period)
  /\ tmp_year' = FAdd(tmp_year, One)
  /\ ranSub' = TRUE
  /\ iters' = iters + 1
  /\ UNCHANGED <<cvars, ainputs, mean_motion, xref, px0, pdx, hx0, hdx, zx0,
                 zdx, result, julian_date, dinputs, raw, ranAdd, date>>

SubExit ==
  /\ op = "compute" /\ pc = "subtract"
  /\ ~SubCondition(tmp_day, orbital_period)
  /\ pc' = "add"
  /\ UNCHANGED <<op, run, first, avars, dvars>>

AddIter ==
  /\ op = "compute" /\ pc = "add"
  /\ AddCondition(tmp_day)
  /\ iters < MaxIters
  /\ tmp_day' = FAdd(tmp_day, orbital_period)
  /\ tmp_year' = FSub(tmp_year, One)
  /\ ranAdd' = TRUE
  /\ iters' = iters + 1
  /\ UNCHANGED <<cvars, ainputs, mean_motion, xref, px0, pdx, hx0, hdx, zx0,
                 zdx, result, julian_date, dinputs, raw, ranSub, date>>

\* The rest of compute, after the second loop: the solar longitude and the
\* fields of the Date.
Compose ==
  /\ op = "compute" /\ pc = "add"
  /\ ~AddCondition(tmp_day)
  /\ \E ls \in SolarLongitudes :
       date' = [era |-> EraOf(tmp_year),
                year |-> tmp_year,
                month |-> FAdd(One, FFloor(FDiv(ls, avg_ls))),
                day |-> FAdd(One, FFloor(tmp_day)),
                ls |-> ls]
  /\ pc' = "done"
  /\ UNCHANGED <<op, run, first, avars, julian_date, dinputs, tmp_day,
                 tmp_year, raw, ranSub, ranAdd>>

\* One orbital period in julian days:
\* orbital_period * rotational_period / EARTH_ROTATIONAL_PERIOD.
PeriodInJulianDays(p, rot) == FDiv(FMul(p, rot), EARTH_ROTATIONAL_PERIOD)

\* A second call of compute for the same body after the first has
\* returned: one orbital period later, or at any of the dates.
CallAgain ==
  /\ op = "compute" /\ pc = "done" /\ run = 1
  /\ first' = [julian_date |-> julian_date, raw |-> raw, date |-> date]
  /\ run' = 2
  /\ julian_date' \in
       {FAdd(julian_date, PeriodInJulianDays(orbital_period, rotational_period))}
         \cup JulianDates(epoch)
  /\ tmp_day' = Zero /\ tmp_year' = Zero /\ raw' = Zero
  /\ ranSub' = FALSE /\ ranAdd' = FALSE /\ date' = NoDate
  /\ iters' = 0
  /\ pc' = "call"
  /\ UNCHANGED <<op, ainputs, mean_motion, xref, px0, pdx, hx0, hdx, zx0, zdx,
                 result, dinputs>>

\* ------------------------------------------------------------ the system

InitEccentric ==
  /\ op = "eccentric" /\ pc = "call" /\ run = 1 /\ first = Zero
  /\ shape \in Shapes
  /\ mean_motion \in SeedsOf(shape)
  /\ orbital_eccentricity \in Eccentricities(shape)
  /\ major_axis \in MajorAxes
  /\ xref = Zero /\ px0 = Zero /\ pdx = Zero /\ hx0 = Zero /\ hdx = Zero
  /\ zx0 = Zero /\ zdx = Zero /\ result = Zero
  /\ iters = 0
  /\ julian_date = Zero /\ epoch = Zero /\ rotational_period = Zero
  /\ orbital_period = Zero /\ tmp_day = Zero /\ tmp_year = Zero
  /\ raw = Zero /\ ranSub = FALSE /\ ranAdd = FALSE /\ date = NoDate

InitCompute ==
  /\ op = "compute" /\ pc = "call" /\ run = 1 /\ first = NoDate
  /\ \E b \in Bodies :
       /\ epoch = b.epoch
       /\ rotational_period = b.rotational_period
       /\ orbital_period = b.orbital_period
       /\ julian_date \in JulianDates(b.epoch)
  /\ shape = "Elliptical" /\ mean_motion = Zero
  /\ orbital_eccentricity = Zero /\ major_axis = Zero
  /\ xref = Zero /\ px0 = Zero /\ pdx = Zero /\ hx0 = Zero /\ hdx = Zero
  /\ zx0 = Zero /\ zdx = Zero /\ result = Zero
  /\ iters = 0
  /\ tmp_day = Zero /\ tmp_year = Zero
  /\ raw = Zero /\ ranSub = FALSE /\ ranAdd = FALSE /\ date = NoDate

Init == InitEccentric \/ InitCompute

Next ==
  \/ EccentricCircular
  \/ ParabolicInit \/ ParabolicIter \/ ParabolicReturn
  \/ HyperbolicInit \/ HyperbolicIter \/ HyperbolicReturn
  \/ EllipticalInit \/ EllipticalIter \/ EllipticalReturn
  \/ CallNegated
  \/ DateInit \/ SubIter \/ SubExit \/ AddIter \/ Compose
  \/ CallAgain

Spec == Init /\ [][Next]_vars

\* The parabolic branch runs as one sequential call: once started it
\* executes its next statement; whether a second call follows is up to the
\* caller.
\* ENABLED <<ParabolicIter>>_vars: the guard of the loop body.
ParabolicIterEnabled ==
  /\ op = "eccentric" /\ pc = "parabolic"
  /\ LoopCondition(pdx)
  /\ iters < MaxIters

\* Weak fairness of each statement, that of the loop body written with its
\* enabling condition.
LiveSpec ==
  /\ Spec
  /\ WF_vars(ParabolicInit)
  /\ WF_vars(ParabolicReturn)
  /\ ([]<>~ParabolicIterEnabled \/ []<><<ParabolicIter>>_vars)

\* ------------------------------------------------------------- the claims

\* x == y of f64: false when either is a NaN.
FEq(x, y) == ~IsNaN(x) /\ ~IsNaN(y) /\ x = y

Returned == op = "eccentric" /\ pc = "done"
Composed == op = "compute" /\ pc = "done"

\* C1: for e = 0 and every finite seed M, positive, zero or negative,
\* eccentric(Circular, M, e, a) returns exactly M.
C1_CircularReturnsSeed ==
  (Returned /\ shape = "Circular") => result = mean_motion

\* C2: sign symmetry: the call with the seed negated and the other
\* arguments equal returns the negation of what the first call returned,
\* eccentric(shape, -M, e, a) == -eccentric(shape, M, e, a), for every
\* shape.
C2_SignSymmetry ==
  (Returned /\ run = 2) => FEq(result, FNeg(first))

\* |E - e sin(E) - M| for the returned E and the seed M.
KeplerResidual(E, e, M) == FAbs(FSub(FSub(E, FMul(e, FSin(E))), M))

\* C3: the E returned by the Elliptical branch satisfies the Kepler
\* residual |E - e sin(E) - M| < 1e-6 and is reached in fewer iterations
\* than the cap (100); for e = 0.0934, a = 1.52, M = 0.5 in under 50.
C3_EllipticalResidual ==
  (Returned /\ shape = "Elliptical") =>
    /\ FLt(KeplerResidual(result, orbital_eccentricity, mean_motion),
           Lit(1, 1000000))
    /\ iters < 100
    /\ (/\ orbital_eccentricity = Lit(934, 10000)
        /\ major_axis = Lit(152, 100)
        /\ mean_motion = Lit(1, 2)) => iters < 50

\* C4: the loop of an iterative shape runs at most a fixed cap of
\* iterations (100), after which the call returns or fails with
\* NumericalNonConvergence.
C4_IterationCap ==
  op = "eccentric" => iters <= 100

\* C10: whenever the Elliptical or the Hyperbolic branch returns, the
\* magnitude of the last step applied, |zdx| resp. |hdx|, is <= 1e-7,
\* whether that step was positive or negative.
C10_LastStepSmall ==
  /\ (Returned /\ shape = "Elliptical") => FLe(FAbs(zdx), Tolerance)
  /\ (Returned /\ shape = "Hyperbolic") => FLe(FAbs(hdx), Tolerance)

\* The error of the rounded sum a + b (Knuth's two-sum): zero exactly when
\* a + b is a number of the format.
SumError(a, b) ==
  LET sum == FAdd(a, b)
      bb == FSub(sum, a)
  IN  FAdd(FSub(a, FSub(sum, bb)), FSub(b, bb))

\* The second call is the first one's date moved by one orbital period:
\* julian_date + orbital_period * rotational_period / EARTH_ROTATIONAL_PERIOD.
ShiftedByPeriod ==
  /\ Composed /\ run = 2
  /\ julian_date =
       FAdd(first.julian_date,
            PeriodInJulianDays(orbital_period, rotational_period))

\* The raw elapsed-day count of the second call is that of the first plus
\* orbital_period, exactly.
RawExactlyOnePeriodLater ==
  /\ Composed /\ run = 2
  /\ raw = FAdd(first.raw, orbital_period)
  /\ SumError(first.raw, orbital_period) = Zero

\* C6, as the code has it: when the raw elapsed-day count of a second call
\* is exactly one orbital period more than that of the first, its year is
\* exactly 1 greater and its day is the same; and year is non-decreasing in
\* julian_date.
C6_PeriodicWhenExact ==
  (Composed /\ run = 2) =>
    /\ RawExactlyOnePeriodLater =>
         /\ date.year = FAdd(first.date.year, One)
         /\ date.day = first.date.day
    /\ FGe(julian_date, first.julian_date) =>
         FGe(date.year, first.date.year)
    /\ FLe(julian_date, first.julian_date) =>
         FLe(date.year, first.date.year)

\* A second call one period later whose raw count moved by exactly the
\* period, after both calls went through the first loop.
C6_Witness ==
  /\ ShiftedByPeriod
  /\ RawExactlyOnePeriodLater
  /\ ranSub
  /\ FGt(first.raw, orbital_period)

\* C6: shifting julian_date by one orbital period yields a Date whose
\* year is exactly 1 greater and whose day is the same.
C6_PeriodicAlways ==
  ShiftedByPeriod =>
    /\ date.year = FAdd(first.date.year, One)
    /\ date.day = first.date.day

\* C7: none of the fields year, month and day of the Date returned is 0.
C7_NoZeroField ==
  Composed => date.year # Zero /\ date.month # Zero /\ date.day # Zero

\* C8: the era is AD only when julian_date is at or after epoch, BD only
\* when julian_date is before epoch, and never Unknown.
C8_EraFollowsEpoch ==
  Composed =>
    /\ date.era # "Unknown"
    /\ date.era = "AD" => FGe(julian_date, epoch)
    /\ date.era = "BD" => FLt(julian_date, epoch)

\* C9: the loops end with a day d and a year y such that
\* 0 <= d < orbital_period and r == d + (y - 12) * orbital_period for the
\* raw count r, and at most one of the two loops executed an iteration.
\* The equation is stated on the rounded values of its two sides, r - d
\* and (y - 12) * orbital_period, which are equal whenever it holds.
C9_Normalized ==
  Composed =>
    /\ FGe(tmp_day, Zero) /\ FLt(tmp_day, orbital_period)
    /\ FSub(raw, tmp_day) = FMul(FSub(tmp_year, InitialYear), orbital_period)
    /\ ~(ranSub /\ ranAdd)

\* C11: for the parabolic input e = 1 (q = 0, so that the update is
\* D' = D^3 / 6 from D = |M|), every call eccentric(Parabolic, M, 1, a)
\* returns, whatever the finite seed M: below sqrt(6), where the steps
\* shrink under the tolerance, and above it, where they grow to infinity
\* and the step after becomes a NaN, which ends the loop.
ParabolicCalled ==
  /\ op = "eccentric" /\ pc = "call" /\ shape = "Parabolic"
  /\ orbital_eccentricity = One /\ IsFinite(mean_motion)
ParabolicReturned == Returned /\ shape = "Parabolic"
C11_ParabolicTerminates == ParabolicCalled ~> ParabolicReturned

\* A call with |M| > sqrt(6) that has returned, after its steps grew.
C11_Witness ==
  /\ ParabolicReturned
  /\ orbital_eccentricity = One
  /\ FGe(mean(mean_motion), AboveSqrtSix)
  /\ iters > 1
  /\ IsNaN(result)

====
